---- MODULE Spec2Model ----
(***************************************************************************)
(* Model of script() of octoherd-script-library-query (script.js): one     *)
(* invocation per repository.  Strings that the code matches with regular  *)
(* expressions or hands to semver are sequences of one-character strings,  *)
(* so that extraction and comparison are computed, not assumed.            *)
(***************************************************************************)
EXTENDS Integers, Sequences, FiniteSets, TLC

VARIABLES
    options,       \* the third argument of script(): versionRequirement, reduce, library, packageManager
    repository,    \* the second argument: [archived]
    packageJson,   \* the repository's package.json, as a contents request would answer it
    pc,            \* position of the invocation: start, awaitPnpm, awaitYarn, done
    result,        \* pending | returned | threw
    requests,      \* paths handed to octokit.request, in order
    pnpmFile,      \* answer of the pnpm-lock.yaml request
    yarnFile,      \* answer of the yarn.lock request
    lockfilePath,  \* the local variable lockfilePath
    candidates,    \* the local variable versions as it is before the switch (reduce)
    versions,      \* the local variable versions
    log            \* records handed to octokit.log.debug/info/warn/error, in order

vars == <<options, repository, packageJson, pc, result, requests, pnpmFile, yarnFile,
          lockfilePath, candidates, versions, log>>

----------------------------------------------------------------------------
(* Bounds of the model.                                                    *)

\* Largest number of keys of the packages mapping of a pnpm-lock.yaml.
MaxKeys == 3

\* Largest number of entries of a yarn.lock.
MaxEntries == 2

----------------------------------------------------------------------------
(* Strings.                                                                *)

\* JavaScript's undefined, where a string is expected.
Undefined == <<"undefined">>

EmptyString == << >>

pnpmLockPath == <<"pnpm-lock.yaml">>

yarnPath == <<"yarn.lock">>

\* The default of the library option.
DefaultLibrary == <<"@", "t", "i", "m", "e", "-", "l", "o", "o", "p", "/",
                    "c", "d", "k", "-", "l", "i", "b", "r", "a", "r", "y">>

JestLibrary == <<"j", "e", "s", "t">>

SocketIo == <<"s", "o", "c", "k", "e", "t", ".", "i", "o">>

BabelGenerator == <<"@", "b", "a", "b", "e", "l", "/",
                    "g", "e", "n", "e", "r", "a", "t", "o", "r">>

Digits == {"0", "1", "2", "3", "4", "5", "6", "7", "8", "9"}

Letters == {"a", "b", "c", "d", "e", "f", "g", "h", "i", "j", "k", "l", "m",
            "n", "o", "p", "q", "r", "s", "t", "u", "v", "w", "x", "y", "z"}

\* Positions p..q of s (empty when q < p).
Slice(s, p, q) == SubSeq(s, p, q)

\* End of the longest run of characters of class cls starting at p; p - 1 when
\* s[p] is not of the class: what a greedy cls+ or cls* consumes from p.
RECURSIVE RunEnd(_, _, _)
RunEnd(s, p, cls) ==
    IF p <= Len(s) /\ s[p] \in cls THEN RunEnd(s, p + 1, cls) ELSE p - 1

\* The characters of s, as a set.
Chars(s) == {s[i] : i \in 1..Len(s)}

\* The value of a string of decimal digits.
RECURSIVE ToNumber(_)
ToNumber(ds) ==
    IF Len(ds) = 0 THEN 0
    ELSE 10 * ToNumber(Slice(ds, 1, Len(ds) - 1))
         + (CHOOSE n \in 0..9 : ToString(n) = ds[Len(ds)])

----------------------------------------------------------------------------
(* The pnpm-lock.yaml key pattern (script.js, the match of dependencyPath):*)
(*   ^(?<packageName>(@[^\/]+\/)?[^@]+)@(?<version>[0-9]+\.[0-9]+\.[0-9]+).* *)

\* [0-9]+\.[0-9]+\.[0-9]+ at position p: the position of its last character,
\* 0 when it does not match there.  Each run is followed by a character that
\* is not a digit, so backtracking into a run never helps.
VersionEnd(s, p) ==
    LET e1 == RunEnd(s, p, Digits)
        e2 == RunEnd(s, e1 + 2, Digits)
        e3 == RunEnd(s, e2 + 2, Digits)
    IN  IF /\ e1 >= p
           /\ e1 + 1 <= Len(s) /\ s[e1 + 1] = "."
           /\ e2 >= e1 + 2
           /\ e2 + 1 <= Len(s) /\ s[e2 + 1] = "."
           /\ e3 >= e2 + 2
        THEN e3 ELSE 0

\* Where [^@]+ starts: after the scope group (@[^\/]+\/) when s starts with one,
\* at 1 when the group is skipped, 0 when neither can lead to a match.  The
\* group is tried first; its [^\/]+ stops at the first "/", and no shorter
\* run is followed by a "/".  Skipping the group leaves [^@]+ at s[1], which
\* fails on an "@".
PnpmNameStart(s) ==
    IF Len(s) = 0 THEN 0
    ELSE IF s[1] = "@"
    THEN LET r == RunEnd(s, 2, Chars(s) \ {"/"})
         IN  IF r >= 2 /\ r + 1 <= Len(s) THEN r + 2 ELSE 0
    ELSE 1

\* The groups of the match, both undefined when the pattern does not match
\* (`?.groups ?? {}`).  [^@]+ runs to the first "@"; no shorter run is
\* followed by an "@".
PnpmGroups(s) ==
    LET a == PnpmNameStart(s)
        e == RunEnd(s, a, Chars(s) \ {"@"})
        v == VersionEnd(s, e + 2)
    IN  IF a # 0 /\ e >= a /\ e + 1 <= Len(s) /\ v # 0
        THEN [packageName |-> Slice(s, 1, e), version |-> Slice(s, e + 2, v)]
        ELSE [packageName |-> Undefined, version |-> Undefined]

----------------------------------------------------------------------------
(* The yarn.lock key pattern (script.js, the match of packageName):        *)
(*   /^(@?[a-z0-9-]+\/?[a-z0-9-]+)@/i                                      *)

\* [a-z0-9-] under the i flag.  The model's strings hold no upper case.
NameChars == Letters \cup Digits \cup {"-"}

\* Group 1 of the match, undefined when the pattern does not match (`?.[1]`).
\* After the optional "@" the first run is greedy.  When a "/" follows it,
\* the second run must reach the "@"; otherwise the first run gives its last
\* character to the second, so it must be two characters long at least.
YarnNameOnly(s) ==
    LET p  == IF Len(s) >= 1 /\ s[1] = "@" THEN 2 ELSE 1
        r1 == RunEnd(s, p, NameChars)
        r2 == RunEnd(s, r1 + 2, NameChars)
    IN  IF r1 < p THEN Undefined
        ELSE IF /\ r1 + 1 <= Len(s) /\ s[r1 + 1] = "/"
                /\ r2 >= r1 + 2
                /\ r2 + 1 <= Len(s) /\ s[r2 + 1] = "@"
        THEN Slice(s, 1, r2)
        ELSE IF r1 >= p + 1 /\ r1 + 1 <= Len(s) /\ s[r1 + 1] = "@"
        THEN Slice(s, 1, r1)
        ELSE Undefined

----------------------------------------------------------------------------
(* The semver package, as far as script() uses it: compare and satisfies,  *)
(* on strict versions  major.minor.patch  with an optional  -prerelease    *)
(* of one identifier, and on ranges of one comparator.                     *)

\* A numeric identifier of a strict version: 0|[1-9]\d* at s[p..e].
IsNumericIdentifier(s, p, e) == e >= p /\ (e = p \/ s[p] # "0")

\* new SemVer(v): a version that does not match is invalid (the constructor
\* throws a TypeError); undefined is invalid too.
SemverParse(v) ==
    LET e1 == RunEnd(v, 1, Digits)
        e2 == RunEnd(v, e1 + 2, Digits)
        e3 == RunEnd(v, e2 + 2, Digits)
        invalid == [valid |-> FALSE, major |-> 0, minor |-> 0, patch |-> 0,
                    prerelease |-> << >>]
    IN  IF /\ IsNumericIdentifier(v, 1, e1)
           /\ e1 + 1 <= Len(v) /\ v[e1 + 1] = "."
           /\ IsNumericIdentifier(v, e1 + 2, e2)
           /\ e2 + 1 <= Len(v) /\ v[e2 + 1] = "."
           /\ IsNumericIdentifier(v, e2 + 2, e3)
           /\ \/ e3 = Len(v)
              \/ /\ e3 + 2 <= Len(v)
                 /\ v[e3 + 1] = "-"
                 /\ \A i \in (e3 + 2)..Len(v) : v[i] \in NameChars
        THEN [valid |-> TRUE,
              major |-> ToNumber(Slice(v, 1, e1)),
              minor |-> ToNumber(Slice(v, e1 + 2, e2)),
              patch |-> ToNumber(Slice(v, e2 + 2, e3)),
              prerelease |-> Slice(v, e3 + 2, Len(v))]
        ELSE invalid

\* The characters of an identifier in ASCII order.
AsciiOrder == <<"-", "0", "1", "2", "3", "4", "5", "6", "7", "8", "9",
                "a", "b", "c", "d", "e", "f", "g", "h", "i", "j", "k", "l", "m",
                "n", "o", "p", "q", "r", "s", "t", "u", "v", "w", "x", "y", "z">>

Rank(c) == CHOOSE i \in 1..Len(AsciiOrder) : AsciiOrder[i] = c

Sign(x, y) == IF x < y THEN -1 ELSE IF x > y THEN 1 ELSE 0

\* String comparison of two identifiers.
RECURSIVE CompareStrings(_, _)
CompareStrings(p, q) ==
    IF Len(p) = 0 \/ Len(q) = 0 THEN Sign(Len(p), Len(q))
    ELSE IF p[1] # q[1] THEN Sign(Rank(p[1]), Rank(q[1]))
    ELSE CompareStrings(Tail(p), Tail(q))

\* compareIdentifiers: numeric ones by value and below the others.
CompareIdentifiers(p, q) ==
    LET pn == Chars(p) \subseteq Digits
        qn == Chars(q) \subseteq Digits
    IN  IF pn /\ qn THEN Sign(ToNumber(p), ToNumber(q))
        ELSE IF pn THEN -1
        ELSE IF qn THEN 1
        ELSE CompareStrings(p, q)

\* SemVer.compareMain
CompareMain(a, b) ==
    IF a.major # b.major THEN Sign(a.major, b.major)
    ELSE IF a.minor # b.minor THEN Sign(a.minor, b.minor)
    ELSE Sign(a.patch, b.patch)

\* SemVer.comparePre: a version without a prerelease is above one with.
ComparePre(a, b) ==
    IF a.prerelease = << >> /\ b.prerelease = << >> THEN 0
    ELSE IF b.prerelease = << >> THEN -1
    ELSE IF a.prerelease = << >> THEN 1
    ELSE CompareIdentifiers(a.prerelease, b.prerelease)

\* Semver.compare(a, b) throws when either version is invalid.
CompareThrows(a, b) == ~SemverParse(a).valid \/ ~SemverParse(b).valid

\* Semver.compare(a, b) of two valid versions: -1, 0 or 1.
SemverCompare(a, b) ==
    LET x == SemverParse(a)
        y == SemverParse(b)
    IN  IF CompareMain(x, y) # 0 THEN CompareMain(x, y) ELSE ComparePre(x, y)

\* A versionRequirement: undefined, or a string that is empty or one
\* comparator, op being ">=", "^" or "" (an exact version).
NoRequirement == [defined |-> FALSE, op |-> "", v |-> EmptyString]

EmptyRequirement == [defined |-> TRUE, op |-> "", v |-> EmptyString]

\* A check for undefined only, which lets the empty string through.
IsFalsyOnlyUndefined(req) == ~req.defined

\* !versionRequirement
IsFalsy(req) == ~req.defined \/ (req.op = "" /\ req.v = EmptyString)

\* The version just above a caret range: ^M.m.p allows changes that do not
\* modify the left-most non-zero element.
CaretUpper(r) ==
    IF r.major > 0 THEN [r EXCEPT !.major = r.major + 1, !.minor = 0, !.patch = 0]
    ELSE IF r.minor > 0 THEN [r EXCEPT !.minor = r.minor + 1, !.patch = 0]
    ELSE [r EXCEPT !.patch = r.patch + 1]

\* Semver.satisfies(version, range): false for an invalid version or range,
\* and for a version with a prerelease, which no comparator of the model's
\* ranges (none has a prerelease) admits.
SemverSatisfies(version, req) ==
    LET x == SemverParse(version)
        r == SemverParse(req.v)
    IN  /\ x.valid /\ r.valid /\ req.defined
        /\ x.prerelease = << >>
        /\ CASE req.op = ">=" -> CompareMain(x, r) >= 0
             [] req.op = "^"  -> CompareMain(x, r) >= 0 /\ CompareMain(x, CaretUpper(r)) < 0
             [] req.op = ""   -> CompareMain(x, r) = 0
             [] OTHER         -> FALSE

----------------------------------------------------------------------------
(* The inputs of one invocation.                                           *)

At == <<"@">>

Slash == <<"/">>

V5_14_0 == <<"5", ".", "1", "4", ".", "0">>

V5_15_0 == <<"5", ".", "1", "5", ".", "0">>

V5_15_2 == <<"5", ".", "1", "5", ".", "2">>

V5_16_0 == <<"5", ".", "1", "6", ".", "0">>

V29_7_0 == <<"2", "9", ".", "7", ".", "0">>

V7_24_5 == <<"7", ".", "2", "4", ".", "5">>

V0_0_0 == <<"0", ".", "0", ".", "0">>

\* A prerelease of 0.0.0, as experimental builds are numbered.
V0_0_0_rc == V0_0_0 \o <<"-", "r", "c">>

\* A major version above the seed of the 'min' fold.
V100000000_0_0 == <<"1", "0", "0", "0", "0", "0", "0", "0", "0", ".", "0", ".", "0">>

\* Matches [0-9]+\.[0-9]+\.[0-9]+ and is no strict semver version.
V01_0_0 == <<"0", "1", ".", "0", ".", "0">>

\* A peer-dependency suffix of a pnpm dependency path.
V4_0_0 == <<"4", ".", "0", ".", "0">>

PeerSuffix == <<"(">> \o JestLibrary \o At \o V29_7_0 \o <<")">>

\* Keys of the packages mapping of a pnpm-lock.yaml: with the leading "/" of
\* the format the code's comment describes, and without it.
PnpmKeys ==
    { Slash \o DefaultLibrary \o At \o V5_15_2,
      DefaultLibrary \o At \o V5_14_0,
      DefaultLibrary \o At \o V5_16_0 \o PeerSuffix,
      DefaultLibrary \o At \o V100000000_0_0,
      DefaultLibrary \o At \o V01_0_0,
      DefaultLibrary \o At \o V0_0_0_rc,
      JestLibrary \o At \o V29_7_0,
      Slash \o JestLibrary \o At \o V29_7_0 \o PeerSuffix }

\* Entries of a yarn.lock: the key <packageName>@<range> and the version field.
YarnEntries ==
    { [key |-> DefaultLibrary \o At \o <<"^">> \o V5_15_0, version |-> V5_15_2],
      [key |-> DefaultLibrary \o At \o <<"^">> \o V5_14_0, version |-> V5_14_0],
      [key |-> DefaultLibrary \o At \o <<"^">> \o V0_0_0_rc, version |-> V0_0_0_rc],
      [key |-> JestLibrary \o At \o <<"^">> \o V29_7_0, version |-> V29_7_0],
      [key |-> BabelGenerator \o At \o <<"^">> \o V7_24_5, version |-> V7_24_5],
      [key |-> SocketIo \o At \o <<"^">> \o V4_0_0, version |-> V4_0_0] }

\* The sequences without repetition of at most n elements of S: the keys of an
\* object, in insertion order.
KeyLists(S, n) ==
    UNION { {f \in [1..k -> S] : \A i, j \in 1..k : f[i] = f[j] => i = j} : k \in 0..n }

Pnpm == <<"p", "n", "p", "m">>

Yarn == <<"y", "a", "r", "n">>

V10_0_0 == <<"1", "0", ".", "0", ".", "0">>

Requirements ==
    { NoRequirement,
      EmptyRequirement,
      [defined |-> TRUE, op |-> ">=", v |-> V5_15_0],
      [defined |-> TRUE, op |-> "^", v |-> V5_15_0] }

Options ==
    [ versionRequirement : Requirements,
      reduce : {"undefined", "min", "max"},
      library : {Undefined, DefaultLibrary, JestLibrary, SocketIo},
      packageManager : {Undefined, Pnpm} ]

Repositories == [archived : BOOLEAN]

\* The repository's package.json: the request for it fails, or it resolves
\* to a manifest without a packageManager field, or with the pin
\* "<tool>@<version>" of pnpm or of yarn.
Manifests ==
    { [status |-> "rejected", packageManager |-> Undefined],
      [status |-> "resolved", packageManager |-> Undefined],
      [status |-> "resolved", packageManager |-> Pnpm \o At \o V10_0_0],
      [status |-> "resolved", packageManager |-> Yarn \o At \o V4_0_0] }

\* The manifests enumerated for an invocation: all of them where only the
\* packageManager option selects the mode; elsewhere, where nothing reads
\* the manifest, one stands for all.
ManifestsFor(opts) ==
    IF opts.packageManager # Undefined /\ opts.library = Undefined
    THEN Manifests
    ELSE { [status |-> "rejected", packageManager |-> Undefined] }

NoFile == [status |-> "pending", type |-> "", doc |-> [kind |-> "", keys |-> << >>]]

Rejected == [status |-> "rejected", type |-> "", doc |-> [kind |-> "", keys |-> << >>]]

\* What yamlParse makes of the decoded content of a file: it throws, or it
\* returns null, a scalar, a mapping without packages, or a mapping with.
PnpmDocs ==
    { [kind |-> k, keys |-> << >>] : k \in {"throws", "null", "scalar", "noPackages"} }
    \cup { [kind |-> "packages", keys |-> ks] : ks \in KeyLists(PnpmKeys, MaxKeys) }

\* What lockfile.parse makes of the decoded content of a file: it throws, or
\* it returns an object of type conflict or success.
YarnDocs ==
    { [kind |-> k, keys |-> << >>] : k \in {"throws", "conflict"} }
    \cup { [kind |-> "success", keys |-> ks] : ks \in KeyLists(YarnEntries, MaxEntries) }

\* The answers of a resolved contents request.
Resolved(docs) ==
    { [status |-> "resolved", type |-> "dir", doc |-> [kind |-> "", keys |-> << >>]] }
    \cup { [status |-> "resolved", type |-> "file", doc |-> d] : d \in docs }

\* The answers of a resolved request of pnpm-lock.yaml.
PnpmAnswers == Resolved(PnpmDocs)

\* The answers of a resolved request of yarn.lock.
YarnAnswers == Resolved(YarnDocs)

----------------------------------------------------------------------------
(* script()                                                                *)

\* A record handed to octokit.log.<level>: which message, and the path and
\* the value (a version, a type) the message names.
Entry(level, msg, path, what) ==
    [level |-> level, msg |-> msg, path |-> path, what |-> what]

None == << >>

\* A skip rule that never applies.
IsArchivedNever(repo) == FALSE

\* repository.archived
IsArchived(repo) == repo.archived

\* A type check that lets every type through.
IsFileAlways(file) == TRUE

\* The negation of `pnpmFile.type !== 'file'` and of `yarnFile.type !== 'file'`.
IsFile(file) == file.type = "file"

\* The record of the catch around the request of yarn.lock, at error level.
MissingYarnAtError == Entry("error", "missingYarn", yarnPath, None)

\* The record of the catch around the request of yarn.lock.
MissingYarn == Entry("warn", "missingYarn", yarnPath, None)

\* The record of the catch around the request of pnpm-lock.yaml.
MissingPnpm == Entry("debug", "missingPnpm", pnpmLockPath, None)

\* The library parameter after its default has been applied.
Library(opts) == IF opts.library = Undefined THEN DefaultLibrary ELSE opts.library

\* The 'min' fold's seed.
MinSeed == <<"9", "9", "9", "9", "9", "9", "9", "9", ".", "0", ".", "0">>

\* The 'max' fold's seed.
MaxSeed == <<"0", ".", "0", ".", "0">>

\* The callback of the 'min' reduce.
MinStep(prev, current) == IF SemverCompare(prev, current) = -1 THEN prev ELSE current

\* The callback of the 'max' reduce.
MaxStep(prev, current) == IF SemverCompare(prev, current) = 1 THEN prev ELSE current

\* versions.reduce(callback, seed): the value, or threw when a comparison throws.
RECURSIVE Reduce(_, _, _)
Reduce(how, vs, prev) ==
    IF vs = << >> THEN [threw |-> FALSE, value |-> prev]
    ELSE IF CompareThrows(prev, Head(vs)) THEN [threw |-> TRUE, value |-> prev]
    ELSE Reduce(how, Tail(vs),
                IF how = "min" THEN MinStep(prev, Head(vs)) ELSE MaxStep(prev, Head(vs)))

\* A switch that computes the folds and leaves versions as it was.
ReducedNotAssigned(how, vs) ==
    [threw |-> how \in {"min", "max"} /\ \E i \in 1..Len(vs) : ~SemverParse(vs[i]).valid,
     versions |-> vs]

\* The switch on reduce: the new value of versions, or threw.
Reduced(how, vs) ==
    CASE how = "min" -> LET r == Reduce("min", vs, MinSeed)
                        IN  [threw |-> r.threw, versions |-> <<r.value>>]
      [] how = "max" -> LET r == Reduce("max", vs, MaxSeed)
                        IN  [threw |-> r.threw, versions |-> <<r.value>>]
      [] OTHER       -> [threw |-> FALSE, versions |-> vs]

\* A classification that reports every version as satisfying.
ClassifyAlwaysInfo(v, req) == Entry("info", "satisfies", None, v)

\* The record of one version of versions.map(...).
Classify(v, req) ==
    IF SemverSatisfies(v, req)
    THEN Entry("info", "satisfies", None, v)
    ELSE Entry("warn", "doesNotSatisfy", None, v)

\* The records of versions.map(...), in order.
Classification(vs, req) == [i \in 1..Len(vs) |-> Classify(vs[i], req)]

\* The loop over Object.keys(pnpmLock.packages): the versions pushed.
RECURSIVE PnpmVersions(_, _)
PnpmVersions(keys, library) ==
    IF keys = << >> THEN << >>
    ELSE LET g == PnpmGroups(Head(keys))
         IN  (IF g.packageName # library THEN << >> ELSE <<g.version>>)
             \o PnpmVersions(Tail(keys), library)

\* The loop over yarnLock.object: the versions pushed.
RECURSIVE YarnVersions(_, _)
YarnVersions(entries, library) ==
    IF entries = << >> THEN << >>
    ELSE (IF YarnNameOnly(Head(entries).key) # library THEN << >>
          ELSE <<Head(entries).version>>)
         \o YarnVersions(Tail(entries), library)

\* An exception that no catch stops: script() rejects and logs nothing.
Propagated == [log |-> << >>, result |-> "threw"]

\* The outer catch: the exception is logged at error and script() returns.
OuterCatch == [log |-> <<Entry("error", "exception", None, None)>>, result |-> "returned"]

\* From `if (versions.length < 1)` to the end of script(): the records logged,
\* the final value of versions and how script() ends.  An exception of the
\* reduce goes to the outer catch.
Finish(vs, path) ==
    IF Len(vs) < 1
    THEN [log |-> <<Entry("debug", "notIn", path, None)>>, versions |-> vs,
          result |-> "returned"]
    ELSE LET r == Reduced(options.reduce, vs)
         IN  IF r.threw
             THEN [log |-> <<Entry("debug", "has", path, None)>> \o OuterCatch.log,
                   versions |-> vs,
                   result |-> OuterCatch.result]
             ELSE [log |-> <<Entry("debug", "has", path, None)>>
                           \o Classification(r.versions, options.versionRequirement),
                   versions |-> r.versions,
                   result |-> "returned"]

Init ==
    /\ options \in Options
    /\ repository \in Repositories
    /\ packageJson \in ManifestsFor(options)
    /\ pc = "start"
    /\ result = "pending"
    /\ requests = << >>
    /\ pnpmFile = NoFile
    /\ yarnFile = NoFile
    /\ lockfilePath = Undefined
    /\ candidates = << >>
    /\ versions = << >>
    /\ log = << >>

\* script() up to its first await: the check of versionRequirement, the
\* archived repository, the request of pnpm-lock.yaml.
Start ==
    /\ pc = "start"
    /\ UNCHANGED <<options, repository, packageJson, pnpmFile, yarnFile, lockfilePath,
                   candidates, versions>>
    /\ IF IsFalsy(options.versionRequirement)
       THEN /\ result' = "threw"
            /\ pc' = "done"
            /\ UNCHANGED <<requests, log>>
       ELSE IF IsArchived(repository)
       THEN /\ log' = Append(log, Entry("debug", "archived", None, None))
            /\ result' = "returned"
            /\ pc' = "done"
            /\ UNCHANGED requests
       ELSE /\ log' = Append(log, Entry("debug", "looking", pnpmLockPath, None))
            /\ requests' = Append(requests, pnpmLockPath)
            /\ pc' = "awaitPnpm"
            /\ UNCHANGED result

\* A fallback that does not look at lockfilePath.
NeedsYarnAlways(path) == TRUE

\* `if (!lockfilePath)`: yarn.lock is looked for when no lockfile was found.
NeedsYarn(path) == path = Undefined

\* After the inner try on pnpm-lock.yaml and its catch, with vs pushed and
\* path the value of lockfilePath: the request of yarn.lock, or the rest of
\* script() to its end.
AfterPnpm(logged, vs, path) ==
    IF NeedsYarn(path)
    THEN /\ log' = logged
         /\ requests' = Append(requests, yarnPath)
         /\ pc' = "awaitYarn"
         /\ versions' = vs
         /\ UNCHANGED <<candidates, result>>
    ELSE \E fin \in {Finish(vs, path)} :
             /\ log' = logged \o fin.log
             /\ candidates' = vs
             /\ versions' = fin.versions
             /\ result' = fin.result
             /\ pc' = "done"
             /\ UNCHANGED requests

\* A `return` inside the try blocks, after the records logged.
Return(logged) ==
    /\ log' = logged
    /\ result' = "returned"
    /\ pc' = "done"
    /\ UNCHANGED <<requests, candidates, versions>>

\* The request of pnpm-lock.yaml rejects: the inner catch, then the request
\* of yarn.lock, lockfilePath being undefined.
PnpmRejected ==
    /\ pc = "awaitPnpm"
    /\ pnpmFile' = Rejected
    /\ AfterPnpm(Append(log, MissingPnpm), versions, lockfilePath)
    /\ UNCHANGED <<options, repository, packageJson, yarnFile, lockfilePath>>

\* The request of pnpm-lock.yaml resolves: script() runs to its end.
PnpmResolved ==
    /\ pc = "awaitPnpm"
    /\ \E file \in PnpmAnswers :
        LET found == Entry("debug", "found", pnpmLockPath, None)
            pushed == PnpmVersions(file.doc.keys, Library(options))
        IN  /\ pnpmFile' = file
            /\ lockfilePath' = pnpmLockPath
            /\ CASE ~IsFile(file) ->
                      Return(log \o <<found, Entry("error", "isA", pnpmLockPath, <<file.type>>)>>)
                 [] IsFile(file) /\ file.doc.kind \in {"throws", "null"} ->
                      \* an exception in the inner try: its catch
                      AfterPnpm(log \o <<found, MissingPnpm>>, versions, pnpmLockPath)
                 [] IsFile(file) /\ file.doc.kind \in {"scalar", "noPackages"} ->
                      Return(log \o <<found, Entry("error", "parseFailed", pnpmLockPath, None)>>)
                 [] OTHER ->
                      AfterPnpm(log \o <<found>>, versions \o pushed, pnpmLockPath)
    /\ UNCHANGED <<options, repository, packageJson, yarnFile>>

\* The request of yarn.lock rejects: the catch around it.
YarnRejected ==
    /\ pc = "awaitYarn"
    /\ yarnFile' = Rejected
    /\ Return(Append(log, MissingYarn))
    /\ UNCHANGED <<options, repository, packageJson, pnpmFile, lockfilePath>>

\* The request of yarn.lock resolves: script() runs to its end.
YarnResolved ==
    /\ pc = "awaitYarn"
    /\ \E file \in YarnAnswers :
        LET found == Entry("debug", "found", yarnPath, None)
            pushed == YarnVersions(file.doc.keys, Library(options))
        IN  /\ yarnFile' = file
            /\ lockfilePath' = yarnPath
            /\ CASE ~IsFile(file) ->
                      Return(log \o <<found, Entry("error", "isA", yarnPath, <<file.type>>)>>)
                 [] IsFile(file) /\ file.doc.kind = "throws" ->
                      \* an exception in the try: its catch
                      Return(log \o <<found, MissingYarn>>)
                 [] IsFile(file) /\ file.doc.kind = "conflict" ->
                      Return(log \o <<found, Entry("error", "parseFailed", yarnPath, None)>>)
                 [] OTHER ->
                      \E fin \in {Finish(versions \o pushed, yarnPath)} :
                          /\ log' = log \o <<found>> \o fin.log
                          /\ candidates' = versions \o pushed
                          /\ versions' = fin.versions
                          /\ result' = fin.result
                          /\ pc' = "done"
                          /\ UNCHANGED requests
    /\ UNCHANGED <<options, repository, packageJson, pnpmFile>>

Next == Start \/ PnpmRejected \/ PnpmResolved \/ YarnRejected \/ YarnResolved

Spec == Init /\ [][Next]_vars

----------------------------------------------------------------------------
(* Vocabulary of the properties.                                           *)

Done == pc = "done"

\* The records of the log at a level.
AtLevel(level) == SelectSeq(log, LAMBDA e : e.level = level)

\* The classification records: 'satisfies' and 'DOES NOT satisfy'.
ClassificationRecords ==
    SelectSeq(log, LAMBDA e : e.msg \in {"satisfies", "doesNotSatisfy"})

\* versionRequirement is absent or the empty string.
RequirementMissing ==
    options.versionRequirement \in {NoRequirement, EmptyRequirement}

\* Both a packageManager kind and a library identifier are given.
BothModes == options.packageManager # Undefined /\ options.library # Undefined

Fetched(path) == \E i \in 1..Len(requests) : requests[i] = path

----------------------------------------------------------------------------
(* C1: whenever versionRequirement is absent or empty, with or without a   *)
(* packageManager option, the invocation fails (throws) and no request has *)
(* been issued, then or ever.                                              *)
C1_MissingRequirementThrowsBeforeFetch ==
    RequirementMissing =>
        /\ requests = << >>
        /\ pc \in {"start", "done"}
        /\ Done => result = "threw"

\* The invocation has thrown on an empty versionRequirement in packageManager mode.
C1_Witness ==
    /\ Done /\ result = "threw"
    /\ options.versionRequirement = EmptyRequirement
    /\ options.packageManager # Undefined

(* C2: a request with both a packageManager kind and a library identifier  *)
(* (and a versionRequirement) fails with a configuration error, and no     *)
(* request is issued before the failure.                                   *)
C2_BothModesThrowBeforeFetch ==
    (BothModes /\ ~RequirementMissing) =>
        /\ requests = << >>
        /\ pc \in {"start", "done"}
        /\ Done => result = "threw"

(* C3: for an archived repository no request is ever issued; when the      *)
(* request is valid, the invocation ends with a debug record of the skip   *)
(* and no info, warn or error record.                                      *)
C3_ArchivedNeverFetches ==
    repository.archived =>
        /\ requests = << >>
        /\ (Done /\ ~RequirementMissing /\ ~BothModes) =>
              /\ result = "returned"
              /\ \E i \in 1..Len(log) : log[i].level = "debug" /\ log[i].msg = "archived"
              /\ \A i \in 1..Len(log) : log[i].level = "debug"

\* An archived repository has been skipped.
C3_Witness ==
    /\ Done /\ repository.archived /\ result = "returned"
    /\ log = <<Entry("debug", "archived", None, None)>>

(* C4: classification emits exactly one record per retained version and   *)
(* no other record at info level: an info 'satisfies' record if and only   *)
(* if the version satisfies versionRequirement, otherwise a warn 'DOES NOT *)
(* satisfy' record; with no version retained, no such record is emitted.   *)
(* The retained versions are the final value of versions; no record is     *)
(* emitted either when the reduction has thrown.                           *)
ReductionThrew == \E i \in 1..Len(log) : log[i].msg = "exception"

C4_OneRecordPerRetainedVersion ==
    Done =>
        LET cls == ClassificationRecords
            req == options.versionRequirement
        IN  /\ AtLevel("info") = SelectSeq(log, LAMBDA e : e.msg = "satisfies")
            /\ \A i \in 1..Len(log) :
                  log[i].msg = "doesNotSatisfy" => log[i].level = "warn"
            /\ IF versions = << >> \/ ReductionThrew
               THEN cls = << >>
               ELSE /\ Len(cls) = Len(versions)
                    /\ \A i \in 1..Len(versions) :
                          /\ cls[i].what = versions[i]
                          /\ cls[i].msg = "satisfies" <=> SemverSatisfies(versions[i], req)
                          /\ cls[i].msg = "doesNotSatisfy" <=> ~SemverSatisfies(versions[i], req)

\* Two versions have been retained, the first below the requirement and the
\* second satisfying it, and each has its record.
C4_Witness ==
    /\ Done /\ Len(versions) = 2
    /\ ~SemverSatisfies(versions[1], options.versionRequirement)
    /\ SemverSatisfies(versions[2], options.versionRequirement)
    /\ Len(ClassificationRecords) = 2
    /\ ClassificationRecords[1].level = "warn"
    /\ ClassificationRecords[2].level = "info"

(* C5: in library mode, when pnpm-lock.yaml is a regular file with a        *)
(* packages mapping, every key /<packageName>@<major.minor.patch><suffix>  *)
(* whose packageName is the requested library contributes its version to   *)
(* the candidate list, the keys of other packages contribute nothing, and  *)
(* every contributed version is classified.                                *)
PnpmParsed ==
    /\ Done
    /\ pnpmFile.status = "resolved" /\ pnpmFile.type = "file"
    /\ pnpmFile.doc.kind = "packages"

\* key is "/" library "@" major.minor.patch, whatever follows.
IsSlashKeyOf(key, library) ==
    LET n == Len(library)
    IN  /\ Len(key) >= n + 3
        /\ key[1] = "/"
        /\ Slice(key, 2, n + 1) = library
        /\ key[n + 2] = "@"
        /\ VersionEnd(key, n + 3) # 0

\* The major.minor.patch of such a key.
SlashKeyVersion(key, library) ==
    Slice(key, Len(library) + 3, VersionEnd(key, Len(library) + 3))

\* key names library, with or without the leading "/".
NamesLibrary(key, library) ==
    \/ IsSlashKeyOf(key, library)
    \/ IsSlashKeyOf(Slash \o key, library)

C5_SlashKeysContribute ==
    (PnpmParsed /\ options.packageManager = Undefined) =>
        LET keys == pnpmFile.doc.keys
            lib  == Library(options)
        IN  /\ \A i \in 1..Len(keys) :
                  IsSlashKeyOf(keys[i], lib) =>
                      \E j \in 1..Len(candidates) :
                          candidates[j] = SlashKeyVersion(keys[i], lib)
            /\ Len(candidates) <= Cardinality({i \in 1..Len(keys) : NamesLibrary(keys[i], lib)})
            /\ (options.reduce = "undefined" /\ ~ReductionThrew) =>
                  \A j \in 1..Len(candidates) :
                      \E i \in 1..Len(log) :
                          /\ log[i].msg \in {"satisfies", "doesNotSatisfy"}
                          /\ log[i].what = candidates[j]

(* C6: for every non-empty candidate list of n versions, exactly one       *)
(* classification record is emitted when reduce is 'min' or 'max', and     *)
(* exactly n when reduce is not given, in the order of discovery.          *)
AllValid(vs) == \A i \in 1..Len(vs) : SemverParse(vs[i]).valid

C6_Original ==
    (Done /\ candidates # << >>) =>
        LET cls == ClassificationRecords
        IN  IF options.reduce \in {"min", "max"}
            THEN Len(cls) = 1
            ELSE /\ Len(cls) = Len(candidates)
                 /\ \A i \in 1..Len(candidates) : cls[i].what = candidates[i]

(* C6, amended: the count is one under 'min' or 'max' when every candidate *)
(* is a valid semver version; when one is not, the comparison throws, an   *)
(* error record is emitted and no classification record.  Without reduce   *)
(* the count is n, in the order of discovery, valid or not.                *)
C6_RecordCount ==
    (Done /\ candidates # << >>) =>
        LET cls == ClassificationRecords
        IN  IF options.reduce \in {"min", "max"}
            THEN IF AllValid(candidates)
                 THEN Len(cls) = 1
                 ELSE cls = << >> /\ AtLevel("error") # << >>
            ELSE /\ Len(cls) = Len(candidates)
                 /\ \A i \in 1..Len(candidates) : cls[i].what = candidates[i]

\* Three candidates under 'max' have given one record.
C6_Witness ==
    /\ Done /\ Len(candidates) = 3 /\ options.reduce = "max"
    /\ Len(ClassificationRecords) = 1

(* C7: for a non-empty candidate list, the version retained by 'min' is a  *)
(* candidate that no candidate is below, the version retained by 'max' is  *)
(* a candidate that no candidate is above; the seed of the fold is         *)
(* retained only when it is itself a candidate.  Stated for lists of valid *)
(* versions, on which the fold does not throw.                             *)
IsCandidate(v) == \E i \in 1..Len(candidates) : candidates[i] = v

C7_RetainedIsExtremeCandidate ==
    (Done /\ candidates # << >> /\ AllValid(candidates)) =>
        /\ options.reduce = "min" =>
              /\ Len(versions) = 1
              /\ IsCandidate(versions[1])
              /\ \A i \in 1..Len(candidates) :
                    SemverCompare(candidates[i], versions[1]) # -1
        /\ options.reduce = "max" =>
              /\ Len(versions) = 1
              /\ IsCandidate(versions[1])
              /\ \A i \in 1..Len(candidates) :
                    SemverCompare(candidates[i], versions[1]) # 1

(* C8: in library mode on a repository that is not archived, when the      *)
(* request of pnpm-lock.yaml fails and the request of yarn.lock fails too, *)
(* the invocation returns normally with exactly one warn record, of the    *)
(* missing lockfile, no classification record and no error record.         *)
C8_BothMissingOneWarn ==
    (/\ Done /\ options.packageManager = Undefined /\ ~repository.archived
     /\ pnpmFile.status = "rejected" /\ yarnFile.status = "rejected") =>
        /\ result = "returned"
        /\ Len(AtLevel("warn")) = 1
        /\ AtLevel("warn")[1].msg = "missingYarn"
        /\ ClassificationRecords = << >>
        /\ AtLevel("error") = << >>
        /\ AtLevel("info") = << >>

\* Both requests have failed and the invocation has returned.
C8_Witness ==
    /\ Done /\ options.packageManager = Undefined
    /\ pnpmFile.status = "rejected" /\ yarnFile.status = "rejected"
    /\ requests = <<pnpmLockPath, yarnPath>>
    /\ result = "returned"

(* C9: when the request of pnpm-lock.yaml resolves with a type other than  *)
(* 'file', the invocation emits an error record naming the path and the    *)
(* type, never requests yarn.lock, and emits no classification record.     *)
C9_NotAFileQuits ==
    (pnpmFile.status = "resolved" /\ pnpmFile.type # "file") =>
        /\ Done /\ result = "returned"
        /\ ~Fetched(yarnPath)
        /\ \E i \in 1..Len(log) :
              /\ log[i].level = "error" /\ log[i].msg = "isA"
              /\ log[i].path = pnpmLockPath /\ log[i].what = <<pnpmFile.type>>
        /\ ClassificationRecords = << >>

\* pnpm-lock.yaml has turned out to be a directory.
C9_Witness ==
    /\ Done /\ pnpmFile.status = "resolved" /\ pnpmFile.type = "dir"
    /\ requests = <<pnpmLockPath>>

(* C10: when pnpm-lock.yaml is a regular file with malformed content (the  *)
(* YAML parser rejects it, or it parses to something that is not an        *)
(* object, or it has no top-level packages), the invocation returns        *)
(* without throwing, emits at least one error record, never requests       *)
(* yarn.lock and emits no classification record.                           *)
C10_MalformedPnpmLogsError ==
    (/\ pnpmFile.status = "resolved" /\ pnpmFile.type = "file"
     /\ pnpmFile.doc.kind \in {"throws", "scalar", "noPackages"}) =>
        /\ Done /\ result = "returned"
        /\ AtLevel("error") # << >>
        /\ ~Fetched(yarnPath)
        /\ ClassificationRecords = << >>

(* C11: once the request has passed validation, script() never throws:     *)
(* whatever the requests answer and however decoding, parsing, reduction   *)
(* and classification end, an exception included, the invocation returns   *)
(* normally and has emitted at least one record; only a configuration      *)
(* error is thrown.                                                        *)
C11_OnlyConfigurationErrorsThrown ==
    /\ (Done /\ ~RequirementMissing /\ ~BothModes) =>
          /\ result = "returned"
          /\ log # << >>
    /\ result = "threw" => (RequirementMissing \/ BothModes)

\* The reduction has thrown on a candidate and the invocation has returned.
C11_Witness ==
    /\ Done /\ ~RequirementMissing /\ ~BothModes
    /\ options.reduce = "min"
    /\ candidates # << >> /\ ~AllValid(candidates)
    /\ result = "returned"
    /\ AtLevel("error") # << >>

(* C12: every exception raised after a lockfile has been fetched (while    *)
(* decoding or parsing pnpm-lock.yaml or yarn.lock, or during reduction or *)
(* classification) gives an error record, and is not reported as a debug   *)
(* or warn record of a missing file.                                       *)
PnpmContentThrew ==
    /\ pnpmFile.status = "resolved" /\ pnpmFile.type = "file"
    /\ pnpmFile.doc.kind \in {"throws", "null"}

YarnContentThrew ==
    /\ yarnFile.status = "resolved" /\ yarnFile.type = "file"
    /\ yarnFile.doc.kind = "throws"

C12_FaultsLoggedAtError ==
    Done =>
        /\ (PnpmContentThrew \/ YarnContentThrew \/ ReductionThrew) =>
              AtLevel("error") # << >>
        /\ PnpmContentThrew => \A i \in 1..Len(log) : log[i].msg # "missingPnpm"
        /\ YarnContentThrew => \A i \in 1..Len(log) : log[i].msg # "missingYarn"

(* C13: in packageManager mode with kind T, when the fetched package.json  *)
(* has the pin "<T>@<version>", exactly that version is classified against *)
(* versionRequirement: an info record with "<T> v<major>", the version and *)
(* 'satisfies' when it satisfies, otherwise a warn record with             *)
(* "<T> v<major>" and 'DOES NOT satisfy'.                                  *)
packageJsonPath == <<"package.json">>

\* Only the packageManager option selects the mode, and the request is valid.
PackageManagerMode ==
    /\ options.packageManager # Undefined
    /\ options.library = Undefined
    /\ ~RequirementMissing

\* The tool of a pin "<tool>@<version>".
PinTool(pin) == Slice(pin, 1, RunEnd(pin, 1, Chars(pin) \ {"@"}))

\* The version of a pin "<tool>@<version>".
PinVersion(pin) == Slice(pin, RunEnd(pin, 1, Chars(pin) \ {"@"}) + 2, Len(pin))

\* "<tool> v<major>"
ToolLabel(tool, version) ==
    tool \o <<" ", "v">> \o Slice(version, 1, RunEnd(version, 1, Digits))

\* package.json pins the tool the packageManager option names.
PinsRequestedTool ==
    /\ packageJson.status = "resolved"
    /\ packageJson.packageManager # Undefined
    /\ PinTool(packageJson.packageManager) = options.packageManager

C13_PinClassified ==
    (Done /\ PackageManagerMode /\ ~repository.archived /\ PinsRequestedTool) =>
        LET v   == PinVersion(packageJson.packageManager)
            cls == ClassificationRecords
            sat == SemverSatisfies(v, options.versionRequirement)
        IN  /\ Fetched(packageJsonPath)
            /\ Len(cls) = 1
            /\ cls[1].what = v
            /\ cls[1].path = ToolLabel(options.packageManager, v)
            /\ cls[1].level = (IF sat THEN "info" ELSE "warn")
            /\ cls[1].msg = (IF sat THEN "satisfies" ELSE "doesNotSatisfy")

(* C14: in packageManager mode with kind T, when the request of            *)
(* package.json fails, or the manifest has no packageManager field, or the *)
(* pin names another tool, the invocation emits a debug record that the    *)
(* repository does not specify a T version, emits no classification        *)
(* record and returns normally.                                            *)
C14_NoPinIsDebugOnly ==
    (Done /\ PackageManagerMode /\ ~repository.archived /\ ~PinsRequestedTool) =>
        /\ result = "returned"
        /\ \E i \in 1..Len(log) :
              /\ log[i].level = "debug" /\ log[i].msg = "doesNotSpecify"
              /\ log[i].what = options.packageManager
        /\ ClassificationRecords = << >>
        /\ AtLevel("info") = << >>

(* C15: in a library-mode invocation yarn.lock is requested if and only   *)
(* if the request of pnpm-lock.yaml itself has failed, not when the file   *)
(* was fetched and then failed to decode or parse; each path is requested  *)
(* at most once, so at most two requests are issued and none is retried.   *)
C15_YarnOnlyAfterFailedPnpmRequest ==
    options.packageManager = Undefined =>
        /\ Fetched(yarnPath) <=> pnpmFile.status = "rejected"
        /\ requests \in {<< >>, <<pnpmLockPath>>, <<pnpmLockPath, yarnPath>>}

\* pnpm-lock.yaml was fetched, its parse threw, and yarn.lock was not requested.
C15_Witness ==
    /\ Done /\ options.packageManager = Undefined
    /\ PnpmContentThrew
    /\ requests = <<pnpmLockPath>>

\* yarn.lock was requested after the request of pnpm-lock.yaml failed, and
\* it is a regular file that parses successfully.
YarnParsed ==
    /\ Done
    /\ pnpmFile.status = "rejected"
    /\ yarnFile.status = "resolved" /\ yarnFile.type = "file"
    /\ yarnFile.doc.kind = "success"

\* key is library "@" range.
IsEntryOf(key, library) ==
    LET n == Len(library)
    IN  /\ Len(key) >= n + 2
        /\ Slice(key, 1, n) = library
        /\ key[n + 1] = "@"

\* The resolved versions of the entries of library, in entry order.
RECURSIVE ResolvedVersions(_, _)
ResolvedVersions(entries, library) ==
    IF entries = << >> THEN << >>
    ELSE (IF IsEntryOf(Head(entries).key, library)
          THEN <<Head(entries).version>> ELSE << >>)
         \o ResolvedVersions(Tail(entries), library)

(* C16: when the request of pnpm-lock.yaml fails and yarn.lock is a        *)
(* regular file that parses successfully, the candidate list is exactly    *)
(* the resolved versions of the entries keyed library "@" range, in entry  *)
(* order, entries of other packages contributing nothing; the candidates   *)
(* are then reduced and classified as those of pnpm-lock.yaml are: without *)
(* reduce one record per candidate in order, with 'min' or 'max' one       *)
(* record when the candidates are valid versions.                          *)
C16_YarnEntriesContribute ==
    (YarnParsed /\ options.packageManager = Undefined) =>
        LET expected == ResolvedVersions(yarnFile.doc.keys, Library(options))
            cls      == ClassificationRecords
        IN  /\ candidates = expected
            /\ options.reduce = "undefined" =>
                  /\ Len(cls) = Len(expected)
                  /\ \A i \in 1..Len(expected) : cls[i].what = expected[i]
            /\ (options.reduce # "undefined" /\ expected # << >> /\ AllValid(expected)) =>
                  Len(cls) = 1

====
